---- MODULE Spec2Model ----
(***************************************************************************)
(* django-oscar-systempay: the inbound notification path.                  *)
(*                                                                         *)
(*   HandleIPN.post -> HandleIPN.handle_ipn -> Facade.handle_request       *)
(*                                                                         *)
(* The state is the database (SystemPayTransaction rows, Order rows,       *)
(* payment Source rows) and, per HTTP worker, the position of the request  *)
(* it is serving.  A request is served in the steps between which another  *)
(* worker can touch the database: the INSERT of the RETURN record, the     *)
(* form validation (with its UPDATE on failure), the signature check (with *)
(* its UPDATE on failure), the result-code classification, the SELECT of   *)
(* the order, and the INSERT of the payment source.                        *)
(*                                                                         *)
(* The environment is the gateway notifying the shop of one payment: the   *)
(* first notification carries any payload, and every later one is that     *)
(* payload again (the gateway retries, possibly while the first is still   *)
(* being served), a copy of it whose signature is forged, or a copy of it   *)
(* whose result code is rewritten to success under the old signature.      *)
(***************************************************************************)
EXTENDS Integers, Sequences, FiniteSets, TLC

(***************************************************************************)
(* Bounds of the model.                                                    *)
(***************************************************************************)
\* rows the SystemPayTransaction table may hold
MaxTxns == 2

\* the HTTP workers serving notifications
Workers == {"w1", "w2"}

(***************************************************************************)
(* Values.                                                                 *)
(***************************************************************************)
\* Python's None: a key absent from request.POST, a column left NULL
NoValue == "None"

\* SystemPayTransaction.MODE_SUBMIT, MODE_RETURN
MODE_SUBMIT == "Submit"
MODE_RETURN == "Return"

\* SystemPayTransaction.OPERATION_TYPE_DEBIT, OPERATION_TYPE_CREDIT
OPERATION_TYPE_DEBIT == "DEBIT"
OPERATION_TYPE_CREDIT == "CREDIT"

\* the gateway's success result code
SUCCESS_CODE == "00"

\* the shared secret of settings.SYSTEMPAY_CERTIFICATE
Certificate == "certificate"

(***************************************************************************)
(* The inputs: what a POST to the notification endpoint may carry.         *)
(***************************************************************************)
\* order numbers a payload may name; ORD1 is an order of the shop, ORD9 is not
OrderNumbers == {"ORD1", "ORD9"}

\* a key of character-string value that is absent from request.POST
Missing == << NoValue >>

\* vads_amount as posted: a string of characters, or absent
AmountInputs == {Missing, <<"1", "0", "0">>, <<"a", "b">>}

\* vads_result: the documented codes and one outside the table
ResultCodes == {"00", "02", "05", "30", "96", "17", "99"}

\* vads_extra_result
ExtraResultCodes == {"01", "02"}

\* vads_operation_type
OperationTypes == {OPERATION_TYPE_DEBIT, OPERATION_TYPE_CREDIT, "VERIFICATION"}

Digits == {"0", "1", "2", "3", "4", "5", "6", "7", "8", "9"}

DigitValue(c) ==
    CASE c = "0" -> 0 [] c = "1" -> 1 [] c = "2" -> 2 [] c = "3" -> 3
      [] c = "4" -> 4 [] c = "5" -> 5 [] c = "6" -> 6 [] c = "7" -> 7
      [] c = "8" -> 8 [] c = "9" -> 9

(***************************************************************************)
(* int(s) of Python on the strings of AmountInputs: defined on a non-empty *)
(* string of decimal digits, ValueError otherwise.                         *)
(***************************************************************************)
IsIntString(s) == Len(s) > 0 /\ \A i \in 1..Len(s) : s[i] \in Digits

RECURSIVE ParseInt(_)
ParseInt(s) ==
    IF Len(s) = 0 THEN 0
    ELSE 10 * ParseInt(SubSeq(s, 1, Len(s) - 1)) + DigitValue(s[Len(s)])

(***************************************************************************)
(* Facade.get_total_incl_tax: D(int(form.data.get('vads_amount', '0'))     *)
(* / 100.0).  The amount is kept in minor units (the decimal times 100).   *)
(* AmountString is the argument of int(); get_total_incl_tax_raises tells  *)
(* whether int() raises ValueError on it.                                  *)
(***************************************************************************)
AmountString(data) ==
    IF data.vads_amount = Missing THEN <<"0">> ELSE data.vads_amount

get_total_incl_tax_raises(data) == ~IsIntString(AmountString(data))

get_total_incl_tax(data) == ParseInt(AmountString(data))

\* Facade.get_order_number
get_order_number(data) == data.vads_order_id

\* Facade.get_extra_result
get_extra_result(data) == data.vads_extra_result

(***************************************************************************)
(* Gateway.compute_signature / Gateway.is_signature_valid: the values of   *)
(* the covered fields in declaration order, then the certificate.  The     *)
(* token is kept as the sequence itself (an injective hash).               *)
(***************************************************************************)
compute_signature(data) ==
    << data.vads_amount, data.vads_extra_result, data.vads_operation_type,
       data.vads_order_id, data.vads_result, Certificate >>

is_signature_valid(data) == data.signature = compute_signature(data)

\* what a forger without the certificate can put in the signature field
ForgedSignature == << "forged" >>

(***************************************************************************)
(* SystemPayReturnForm.is_valid: the required fields are present and of    *)
(* their type (the amount an integer).                                     *)
(***************************************************************************)
is_valid(data) ==
    /\ data.vads_order_id # NoValue
    /\ data.vads_amount # Missing
    /\ IsIntString(data.vads_amount)
    /\ data.vads_result # NoValue
    /\ data.signature # Missing

\* the fields of a payload but its signature
PayloadFields ==
    [ vads_order_id       : OrderNumbers,
      vads_amount         : AmountInputs,
      vads_result         : ResultCodes,
      vads_extra_result   : ExtraResultCodes,
      vads_operation_type : OperationTypes ]

Sign(f, sig) ==
    [ vads_order_id       |-> f.vads_order_id,
      vads_amount         |-> f.vads_amount,
      vads_result         |-> f.vads_result,
      vads_extra_result   |-> f.vads_extra_result,
      vads_operation_type |-> f.vads_operation_type,
      signature           |-> sig ]

\* every payload: signed by the gateway, or carrying a forged signature
Payloads ==
    { Sign(f, compute_signature(Sign(f, Missing))) : f \in PayloadFields }
    \cup { Sign(f, ForgedSignature) : f \in PayloadFields }

(***************************************************************************)
(* Exceptions.  SystemPayError and its subclasses derive from oscar's      *)
(* PaymentError; ValueError and RuntimeError are Python's own.             *)
(***************************************************************************)
Exc(cls, msg, code) == [cls |-> cls, msg |-> msg, code |-> code]

NoExc == Exc(NoValue, NoValue, NoValue)

SystemPayErrors ==
    { "SystemPayFormNotValid", "SystemPayGatewayPaymentRejected",
      "SystemPayGatewayParamError", "SystemPayGatewayServerError" }

IsSystemPayError(cls) == cls \in SystemPayErrors

IsPaymentError(cls) == cls = "PaymentError" \/ IsSystemPayError(cls)

(***************************************************************************)
(* The state.                                                              *)
(***************************************************************************)
VARIABLES
    txns,      \* the SystemPayTransaction table, in order of creation
    orders,    \* the numbers of the rows of the Order table
    sources,   \* the payment Source table, in order of creation
    req,       \* per worker: the request it is serving and where it stands
    notified,  \* the payload of the first notification, once posted
    session,   \* request.session['checkout_order_id'] of the customer
    web        \* the customer's browser: the page it has asked for

vars == << txns, orders, sources, req, notified, session, web >>

\* the customer's side of the state
browser == << session, web >>

\* the payload with its signature replaced by a forger's
Forge(data) == [data EXCEPT !.signature = ForgedSignature]

\* the payload with its result code rewritten to success, signature kept
Tamper(data) == [data EXCEPT !.vads_result = SUCCESS_CODE]

\* what the next notification may carry
Deliveries ==
    IF notified = {} THEN Payloads
    ELSE notified \cup { Forge(data) : data \in notified }
                  \cup { Tamper(data) : data \in notified }

Idle ==
    [ pc       |-> "idle",
      POST     |-> NoValue,
      txn      |-> 0,
      returned |-> FALSE,
      order    |-> NoValue,
      exc      |-> NoExc,
      response |-> NoValue ]

\* the browser with no page asked for
WebIdle ==
    [ view     |-> NoValue,
      pc       |-> "idle",
      order    |-> NoValue,
      form     |-> NoValue,
      message  |-> NoValue,
      response |-> NoValue ]

\* the customer has placed order ORD1: PlaceOrderView.handle_successful_order
\* has put its id in the session and redirected to the secure-redirect page
Init ==
    /\ txns = << >>
    /\ orders = {"ORD1"}
    /\ sources = << >>
    /\ req = [w \in Workers |-> Idle]
    /\ notified = {}
    /\ session = "ORD1"
    /\ web = WebIdle

(***************************************************************************)
(* Facade.save_txn: one more row.  trans_id, trans_date, auth_result and   *)
(* raw_request are copied from the payload and read by nothing modelled    *)
(* here; they are left out of the row.                                     *)
(***************************************************************************)
\* save_txn reading the result from the wrong key of the payload
save_txn_wrong_key(order_number, amount, data, mode) ==
    [ mode           |-> mode,
      operation_type |-> data.vads_operation_type,
      order_number   |-> order_number,
      amount         |-> amount,
      result         |-> data.vads_extra_result,
      error_message  |-> NoValue ]

save_txn(order_number, amount, data, mode) ==
    [ mode           |-> mode,
      operation_type |-> data.vads_operation_type,
      order_number   |-> order_number,
      amount         |-> amount,
      result         |-> data.vads_result,
      error_message  |-> NoValue ]

\* SystemPayTransaction.is_complete
is_complete(txn) == txn.result = SUCCESS_CODE

(***************************************************************************)
(* HandleIPN.post's answer to what handle_ipn did: PaymentError becomes a  *)
(* bad request, a normal return an empty 200; any other exception leaves   *)
(* post without a response of its own.  inst.message is taken to be set on *)
(* every PaymentError.                                                     *)
(***************************************************************************)
post_response(exc) ==
    IF exc = NoExc THEN "HttpResponse"
    ELSE IF IsPaymentError(exc.cls) THEN "HttpResponseBadRequest"
    ELSE "Unhandled"

\* the request of worker w ends with exception exc (NoExc: handle_ipn returned)
Ends(w, exc) ==
    req' = [req EXCEPT ![w].pc = "done",
                       ![w].exc = exc,
                       ![w].response = post_response(exc)]

\* int() of get_total_incl_tax raising
ValueError == Exc("ValueError", "invalid literal for int()", NoValue)

\* raised when the form is not valid
FormNotValid ==
    Exc("SystemPayFormNotValid", "The data received are not complete", NoValue)

\* raised when the signature is not valid
IncorrectSignature ==
    Exc("SystemPayFormNotValid", "Incorrect signature", NoValue)

(***************************************************************************)
(* Facade.handle_request, first step: the form is built from request.POST, *)
(* the order number and the amount are read from it, and the RETURN row is *)
(* created.                                                                *)
(***************************************************************************)
HandleRequestCreate(w, data) ==
    /\ req[w].pc = "idle"
    /\ Len(txns) < MaxTxns
    /\ data \in Deliveries
    /\ notified' = IF notified = {} THEN {data} ELSE notified
    /\ IF get_total_incl_tax_raises(data)
       THEN /\ req' = [req EXCEPT ![w] =
                          [Idle EXCEPT !.pc = "done",
                                       !.POST = data,
                                       !.exc = ValueError,
                                       !.response = post_response(ValueError)]]
            /\ UNCHANGED txns
       ELSE /\ txns' = Append(txns,
                          save_txn(get_order_number(data), get_total_incl_tax(data),
                                   data, MODE_RETURN))
            /\ req' = [req EXCEPT ![w] =
                          [Idle EXCEPT !.pc = "is_valid",
                                       !.POST = data,
                                       !.txn = Len(txns) + 1]]
    /\ UNCHANGED << orders, sources >>
    /\ UNCHANGED browser

(***************************************************************************)
(* Facade.handle_request, form validation.                                 *)
(***************************************************************************)
\* the validation raising without txn.save()
HandleRequestValidate_unsaved(w) ==
    /\ req[w].pc = "is_valid"
    /\ IF ~is_valid(req[w].POST)
       THEN Ends(w, FormNotValid)
       ELSE req' = [req EXCEPT ![w].pc = "is_signature_valid"]
    /\ UNCHANGED << txns, orders, sources, notified >>
    /\ UNCHANGED browser

HandleRequestValidate(w) ==
    /\ req[w].pc = "is_valid"
    /\ IF ~is_valid(req[w].POST)
       THEN /\ txns' = [txns EXCEPT ![req[w].txn].error_message = "form errors"]
            /\ Ends(w, FormNotValid)
       ELSE /\ req' = [req EXCEPT ![w].pc = "is_signature_valid"]
            /\ UNCHANGED txns
    /\ UNCHANGED << orders, sources, notified >>
    /\ UNCHANGED browser

(***************************************************************************)
(* Facade.handle_request, signature verification.                          *)
(***************************************************************************)
\* the signature check raising without txn.save()
HandleRequestVerify_unsaved(w) ==
    /\ req[w].pc = "is_signature_valid"
    /\ IF ~is_signature_valid(req[w].POST)
       THEN Ends(w, IncorrectSignature)
       ELSE req' = [req EXCEPT ![w].pc = "is_complete"]
    /\ UNCHANGED << txns, orders, sources, notified >>
    /\ UNCHANGED browser

HandleRequestVerify(w) ==
    /\ req[w].pc = "is_signature_valid"
    /\ IF ~is_signature_valid(req[w].POST)
       THEN /\ txns' = [txns EXCEPT ![req[w].txn].error_message = "Signature not valid"]
            /\ Ends(w, IncorrectSignature)
       ELSE /\ req' = [req EXCEPT ![w].pc = "is_complete"]
            /\ UNCHANGED txns
    /\ UNCHANGED << orders, sources, notified >>
    /\ UNCHANGED browser

(***************************************************************************)
(* Facade.handle_request, the result code: the exception raised for the    *)
(* row txn of payload data, NoExc when the row is returned.  A bare raise  *)
(* with no exception being handled is Python's RuntimeError.               *)
(***************************************************************************)
\* the classification with an unlisted result code falling through
result_exception_fall_through(txn, data) ==
    IF is_complete(txn) THEN NoExc
    ELSE IF txn.result = "02"
         THEN Exc("SystemPayGatewayPaymentRejected", "The shop must contact the bank", NoValue)
    ELSE IF txn.result = "05"
         THEN Exc("SystemPayGatewayPaymentRejected", "The payment has been rejected", NoValue)
    ELSE IF txn.result = "30"
         THEN Exc("SystemPayGatewayParamError", NoValue, get_extra_result(data))
    ELSE IF txn.result = "96"
         THEN Exc("SystemPayGatewayServerError", "Technical error while processing the payment", NoValue)
    ELSE IF txn.result = "17"
         THEN Exc("RuntimeError", "No active exception to reraise", NoValue)
    ELSE NoExc

result_exception(txn, data) ==
    IF is_complete(txn) THEN NoExc
    ELSE IF txn.result = "02"
         THEN Exc("SystemPayGatewayPaymentRejected", "The shop must contact the bank", NoValue)
    ELSE IF txn.result = "05"
         THEN Exc("SystemPayGatewayPaymentRejected", "The payment has been rejected", NoValue)
    ELSE IF txn.result = "30"
         THEN Exc("SystemPayGatewayParamError", NoValue, get_extra_result(data))
    ELSE IF txn.result = "96"
         THEN Exc("SystemPayGatewayServerError", "Technical error while processing the payment", NoValue)
    ELSE IF txn.result = "17"
         THEN Exc("RuntimeError", "No active exception to reraise", NoValue)
    ELSE Exc("SystemPayGatewayServerError", "Unknown error", txn.result)

HandleRequestClassify(w) ==
    /\ req[w].pc = "is_complete"
    /\ LET e == result_exception(txns[req[w].txn], req[w].POST)
       IN  IF e = NoExc
           THEN req' = [req EXCEPT ![w].pc = "get_order", ![w].returned = TRUE]
           ELSE Ends(w, e)
    /\ UNCHANGED << txns, orders, sources, notified >>
    /\ UNCHANGED browser

(***************************************************************************)
(* HandleIPN.handle_ipn: Order.objects.get(number=txn.order_number); on    *)
(* Order.DoesNotExist the error is logged and handle_ipn returns.          *)
(***************************************************************************)
\* handle_ipn without its except Order.DoesNotExist clause
HandleIpnGetOrder_uncaught(w) ==
    /\ req[w].pc = "get_order"
    /\ IF txns[req[w].txn].order_number \in orders
       THEN req' = [req EXCEPT ![w].pc = "save_payment_details",
                               ![w].order = txns[req[w].txn].order_number]
       ELSE Ends(w, Exc("DoesNotExist", "Order matching query does not exist", NoValue))
    /\ UNCHANGED << txns, orders, sources, notified >>
    /\ UNCHANGED browser

HandleIpnGetOrder(w) ==
    /\ req[w].pc = "get_order"
    /\ IF txns[req[w].txn].order_number \in orders
       THEN req' = [req EXCEPT ![w].pc = "save_payment_details",
                               ![w].order = txns[req[w].txn].order_number]
       ELSE Ends(w, NoExc)
    /\ UNCHANGED << txns, orders, sources, notified >>
    /\ UNCHANGED browser

(***************************************************************************)
(* HandleIPN.handle_ipn: the source is built after the operation type and  *)
(* saved by save_payment_details; another operation type is PaymentError.  *)
(***************************************************************************)
Source(order, txn, id) ==
    [ order           |-> order,
      amount_debited  |-> IF txn.operation_type = OPERATION_TYPE_DEBIT
                          THEN txn.amount ELSE 0,
      amount_refunded |-> IF txn.operation_type = OPERATION_TYPE_CREDIT
                          THEN txn.amount ELSE 0,
      txn             |-> id ]

\* handle_ipn saving the source before it looks at the operation type
HandleIpnSavePaymentDetails_any_type(w) ==
    /\ req[w].pc = "save_payment_details"
    /\ LET txn == txns[req[w].txn]
       IN  /\ sources' = Append(sources, Source(req[w].order, txn, req[w].txn))
           /\ IF txn.operation_type \in {OPERATION_TYPE_DEBIT, OPERATION_TYPE_CREDIT}
              THEN Ends(w, NoExc)
              ELSE Ends(w, Exc("PaymentError", "Unknown operation type", txn.operation_type))
    /\ UNCHANGED << txns, orders, notified >>
    /\ UNCHANGED browser

\* the database refusing a row whose order is gone
IntegrityError == Exc("IntegrityError", "foreign key constraint", NoValue)

(***************************************************************************)
(* When the order fetched has been deleted since, the INSERT of the source *)
(* depends on the database: a backend that enforces the foreign key        *)
(* refuses it, one that does not stores the row.                           *)
(***************************************************************************)
HandleIpnSavePaymentDetails(w) ==
    /\ req[w].pc = "save_payment_details"
    /\ LET txn == txns[req[w].txn]
       IN  IF txn.operation_type \in {OPERATION_TYPE_DEBIT, OPERATION_TYPE_CREDIT}
           THEN \/ /\ sources' = Append(sources, Source(req[w].order, txn, req[w].txn))
                   /\ Ends(w, NoExc)
                \/ /\ req[w].order \notin orders
                   /\ Ends(w, IntegrityError)
                   /\ UNCHANGED sources
           ELSE /\ Ends(w, Exc("PaymentError", "Unknown operation type", txn.operation_type))
                /\ UNCHANGED sources
    /\ UNCHANGED << txns, orders, notified >>
    /\ UNCHANGED browser

\* the response is sent and the worker takes the next request
Close(w) ==
    /\ req[w].pc = "done"
    /\ req' = [req EXCEPT ![w] = Idle]
    /\ UNCHANGED << txns, orders, sources, notified >>
    /\ UNCHANGED browser

(***************************************************************************)
(* The customer's pages.  The customer is not a superuser: the order is    *)
(* found through the session (secure redirect) or through vads_order_id    *)
(* (return, cancel).  The browser asks for one page at a time.             *)
(***************************************************************************)
\* order.total_incl_tax, in minor units
total_incl_tax(order) == 100

\* the decimal digits of a natural number
RECURSIVE FormatInt(_)
FormatInt(n) ==
    IF n < 10 THEN << CHOOSE c \in Digits : DigitValue(c) = n >>
    ELSE Append(FormatInt(n \div 10), CHOOSE c \in Digits : DigitValue(c) = n % 10)

(***************************************************************************)
(* Facade.get_submit_form_populated_with_order: the submit form of the     *)
(* order, signed.  Nothing is written to the store.                        *)
(***************************************************************************)
get_submit_form_populated_with_order(order) ==
    LET fields == [ vads_order_id       |-> order,
                    vads_amount         |-> FormatInt(total_incl_tax(order)),
                    vads_result         |-> NoValue,
                    vads_extra_result   |-> NoValue,
                    vads_operation_type |-> NoValue ]
    IN  Sign(fields, compute_signature(Sign(fields, Missing)))

\* Facade.save_submit_txn
save_submit_txn(order_number, amount, form) ==
    save_txn(order_number, amount, form, MODE_SUBMIT)

\* the page asked for ends
WebEnds(response, message) ==
    web' = [web EXCEPT !.pc = "done", !.response = response, !.message = message]

(***************************************************************************)
(* SecureRedirectView.get, first step: get_object, the order of the        *)
(* session.  Http404 when the session holds no order id; Order.DoesNotExist*)
(* escapes when the order of the session is gone.                          *)
(***************************************************************************)
SecureRedirectGetObject ==
    /\ web.pc = "idle"
    /\ Len(txns) < MaxTxns
    /\ IF session = NoValue
       THEN web' = [WebIdle EXCEPT !.view = "SecureRedirectView", !.pc = "done",
                                   !.response = "Http404"]
       ELSE IF session \notin orders
       THEN web' = [WebIdle EXCEPT !.view = "SecureRedirectView", !.pc = "done",
                                   !.response = "Unhandled"]
       ELSE web' = [WebIdle EXCEPT !.view = "SecureRedirectView", !.pc = "get_form",
                                   !.order = session]
    /\ UNCHANGED << txns, orders, sources, req, notified, session >>

\* SecureRedirectView.get_form: the signed form is built and kept
SecureRedirectGetForm ==
    /\ web.pc = "get_form"
    /\ web' = [web EXCEPT !.pc = "save_submit_txn",
                          !.form = get_submit_form_populated_with_order(web.order)]
    /\ UNCHANGED << txns, orders, sources, req, notified, session >>

(***************************************************************************)
(* SecureRedirectView.get: Facade().save_submit_txn, the SUBMIT row of the *)
(* order and of the form just built.                                       *)
(***************************************************************************)
\* get going on to render the page without save_submit_txn
SecureRedirectSaveSubmitTxn_unsaved ==
    /\ web.pc = "save_submit_txn"
    /\ web' = [web EXCEPT !.pc = "render"]
    /\ UNCHANGED << txns, orders, sources, req, notified, session >>

SecureRedirectSaveSubmitTxn ==
    /\ web.pc = "save_submit_txn"
    /\ txns' = Append(txns,
                  save_submit_txn(web.order, total_incl_tax(web.order), web.form))
    /\ web' = [web EXCEPT !.pc = "render"]
    /\ UNCHANGED << orders, sources, req, notified, session >>

(***************************************************************************)
(* SecureRedirectView.get: the page is rendered with the form, and the     *)
(* checkout session is flushed (taken to drop checkout_order_id).          *)
(***************************************************************************)
SecureRedirectRender ==
    /\ web.pc = "render"
    /\ WebEnds("TemplateResponse", NoValue)
    /\ session' = NoValue
    /\ UNCHANGED << txns, orders, sources, req, notified >>

(***************************************************************************)
(* ReturnResponseView.get_redirect_url: the rows filtered on mode RETURN   *)
(* and on the order number, newest first, cut to one.  The rows are kept   *)
(* in creation order.                                                      *)
(***************************************************************************)
\* the newest row of the order, of either mode
LatestReturn_any_mode(order_number) ==
    LET rows == { i \in DOMAIN txns : txns[i].order_number = order_number }
    IN  IF rows = {} THEN 0
        ELSE CHOOSE i \in rows : \A j \in rows : j <= i

\* the newest RETURN row of the order, 0 when it has none
LatestReturn(order_number) ==
    LET rows == { i \in DOMAIN txns : /\ txns[i].mode = MODE_RETURN
                                      /\ txns[i].order_number = order_number }
    IN  IF rows = {} THEN 0
        ELSE CHOOSE i \in rows : \A j \in rows : j <= i

\* the messages of ReturnResponseView, by their first sentence
PendingMessage == "No response received from your bank for the moment"

SuccessMessage == "Your payment has been successfully validated"

RejectedMessage == "Your payment has been rejected"

\* ReturnResponseView.get_redirect_url: the message shown for the order
return_message(order_number) ==
    LET i == LatestReturn(order_number)
    IN  IF i = 0 THEN PendingMessage
        ELSE IF is_complete(txns[i]) THEN SuccessMessage
        ELSE RejectedMessage

\* what vads_order_id of a return or cancel request may be
OrderIdInputs == OrderNumbers \cup {NoValue}

(***************************************************************************)
(* ReturnResponseView.get_redirect_url, with ResponseView.get_order.       *)
(***************************************************************************)
ReturnResponse(order_number) ==
    /\ web.pc = "idle"
    /\ IF order_number = NoValue \/ order_number \notin orders
       THEN /\ web' = [WebIdle EXCEPT !.view = "ReturnResponseView", !.pc = "done",
                                      !.response = "Http404"]
            /\ UNCHANGED session
       ELSE /\ web' = [WebIdle EXCEPT !.view = "ReturnResponseView", !.pc = "done",
                                      !.order = order_number,
                                      !.message = return_message(order_number),
                                      !.response = "checkout:thank-you"]
            /\ session' = order_number
    /\ UNCHANGED << txns, orders, sources, req, notified >>

\* order.delete(): the sources of the order go with it
delete_order_sources(order_number) ==
    SelectSeq(sources, LAMBDA s : s.order # order_number)

(***************************************************************************)
(* CancelResponseView.get_redirect_url, with ResponseView.get_order.  The  *)
(* transaction rows name the order by its number, not by a foreign key:    *)
(* order.delete() leaves them.                                             *)
(***************************************************************************)
\* the cancel taking the transaction rows of the order with it
CancelResponse_purge(order_number) ==
    /\ web.pc = "idle"
    /\ IF order_number = NoValue \/ order_number \notin orders
       THEN /\ web' = [WebIdle EXCEPT !.view = "CancelResponseView", !.pc = "done",
                                      !.response = "Http404"]
            /\ UNCHANGED << txns, orders, sources >>
       ELSE /\ web' = [WebIdle EXCEPT !.view = "CancelResponseView", !.pc = "done",
                                      !.order = order_number,
                                      !.message = "The transaction has be canceled",
                                      !.response = "basket:summary"]
            /\ orders' = orders \ {order_number}
            /\ sources' = delete_order_sources(order_number)
            /\ txns' = SelectSeq(txns, LAMBDA t : t.order_number # order_number)
    /\ UNCHANGED << req, notified, session >>

CancelResponse(order_number) ==
    /\ web.pc = "idle"
    /\ IF order_number = NoValue \/ order_number \notin orders
       THEN /\ web' = [WebIdle EXCEPT !.view = "CancelResponseView", !.pc = "done",
                                      !.response = "Http404"]
            /\ UNCHANGED << orders, sources >>
       ELSE /\ web' = [WebIdle EXCEPT !.view = "CancelResponseView", !.pc = "done",
                                      !.order = order_number,
                                      !.message = "The transaction has be canceled",
                                      !.response = "basket:summary"]
            /\ orders' = orders \ {order_number}
            /\ sources' = delete_order_sources(order_number)
    /\ UNCHANGED << txns, req, notified, session >>

\* the browser has the page and may ask for the next
WebClose ==
    /\ web.pc = "done"
    /\ web' = WebIdle
    /\ UNCHANGED << txns, orders, sources, req, notified, session >>

Next ==
    \E w \in Workers :
        \/ \E data \in Payloads : HandleRequestCreate(w, data)
        \/ HandleRequestValidate(w)
        \/ HandleRequestVerify(w)
        \/ HandleRequestClassify(w)
        \/ HandleIpnGetOrder(w)
        \/ HandleIpnSavePaymentDetails(w)
        \/ Close(w)

Spec == Init /\ [][Next]_vars

(***************************************************************************)
(* One request at a time: a notification is taken only when no worker is   *)
(* serving one.                                                            *)
(***************************************************************************)
NoneServing == \A w \in Workers : req[w].pc = "idle"

HandleRequestCreateAlone(w, data) ==
    /\ NoneServing
    /\ HandleRequestCreate(w, data)

NextSeq ==
    \E w \in Workers :
        \/ \E data \in Payloads : HandleRequestCreateAlone(w, data)
        \/ HandleRequestValidate(w)
        \/ HandleRequestVerify(w)
        \/ HandleRequestClassify(w)
        \/ HandleIpnGetOrder(w)
        \/ HandleIpnSavePaymentDetails(w)
        \/ Close(w)

SpecSeq == Init /\ [][NextSeq]_vars

(***************************************************************************)
(* The shop: the notifications of the gateway and the customer's pages.    *)
(* One worker serves the notifications; the first carries any order        *)
(* number, amount, result code, operation type and signature, and one      *)
(* extra-result code, which no page reads.                                 *)
(***************************************************************************)
ShopWorkers == {"w1"}

ShopPayloads == { data \in Payloads : data.vads_extra_result = "01" }

NextShop ==
    \/ \E w \in ShopWorkers :
          \/ \E data \in ShopPayloads : HandleRequestCreate(w, data)
          \/ HandleRequestValidate(w)
          \/ HandleRequestVerify(w)
          \/ HandleRequestClassify(w)
          \/ HandleIpnGetOrder(w)
          \/ HandleIpnSavePaymentDetails(w)
          \/ Close(w)
    \/ SecureRedirectGetObject
    \/ SecureRedirectGetForm
    \/ SecureRedirectSaveSubmitTxn
    \/ SecureRedirectRender
    \/ \E order_number \in OrderIdInputs : ReturnResponse(order_number)
    \/ \E order_number \in OrderIdInputs : CancelResponse(order_number)
    \/ WebClose

SpecShop == Init /\ [][NextShop]_vars

(***************************************************************************)
(* Vocabulary of the properties.                                           *)
(***************************************************************************)
\* worker w holds a request that has been answered
Done(w) == req[w].pc = "done"

\* worker w holds a request (being served or answered)
Holds(w) == req[w].pc # "idle"

\* the RETURN row of worker w's request is in the store
HasReturnRecord(w) ==
    /\ req[w].txn \in 1..Len(txns)
    /\ txns[req[w].txn].mode = MODE_RETURN

\* the payload of worker w's request passes validation and verification
Authentic(w) == is_valid(req[w].POST) /\ is_signature_valid(req[w].POST)

\* the sources saved for the request of worker w
SourcesOf(w) == { i \in DOMAIN sources : sources[i].txn = req[w].txn }

\* the sources saved against order number o
SourcesOfOrder(o) == { i \in DOMAIN sources : sources[i].order = o }

\* the result codes of the decision table
DocumentedCodes == {SUCCESS_CODE, "02", "05", "30", "96", "17"}

\* the typed gateway errors of the result codes
GatewayErrors ==
    { "SystemPayGatewayPaymentRejected", "SystemPayGatewayParamError",
      "SystemPayGatewayServerError" }

(***************************************************************************)
(* C1.  Audit-first: once handle_request has been entered for a callback   *)
(* (it is being served, or it has returned or failed), a RETURN record of  *)
(* that callback is in the store, whatever the payload.                    *)
(***************************************************************************)
C1_AuditFirst == \A w \in Workers : Holds(w) => HasReturnRecord(w)

(***************************************************************************)
(* C2.  Idempotency: with the notifications served one after the other,    *)
(* no order gets two payment sources.                                      *)
(***************************************************************************)
C2_Idempotent == \A o \in OrderNumbers : Cardinality(SourcesOfOrder(o)) <= 1

(***************************************************************************)
(* C3.  Two notifications served concurrently for the same existing order, *)
(* both authentic, both with the success code and a debit or credit: once  *)
(* both are answered, exactly one payment source is saved for the order.   *)
(***************************************************************************)
SuccessFor(w, o) ==
    /\ Done(w)
    /\ Authentic(w)
    /\ req[w].POST.vads_result = SUCCESS_CODE
    /\ req[w].POST.vads_order_id = o
    /\ req[w].POST.vads_operation_type
          \in {OPERATION_TYPE_DEBIT, OPERATION_TYPE_CREDIT}

C3_ExactlyOneSource ==
    \A o \in orders : \A v, w \in Workers :
        (v # w /\ SuccessFor(v, o) /\ SuccessFor(w, o))
            => Cardinality(SourcesOfOrder(o)) = 1

(***************************************************************************)
(* C4.  handle_request returns a record only for a callback that is valid, *)
(* correctly signed and Complete; and a callback that is not valid or not  *)
(* correctly signed fails with the validation or the signature error,      *)
(* whatever its result code.                                               *)
(***************************************************************************)
C4_ChecksBeforeResult ==
    \A w \in Workers :
        /\ (Holds(w) /\ req[w].returned)
              => /\ Authentic(w)
                 /\ is_complete(txns[req[w].txn])
        /\ (Done(w) /\ ~Authentic(w))
              => req[w].exc \in {FormNotValid, IncorrectSignature}

(***************************************************************************)
(* C5.  The classification is total: an authentic callback whose result    *)
(* code has been classified has exactly one outcome, the record returned   *)
(* (only for the success code) or an exception raised (for every other     *)
(* code), and a code outside the documented table raises ServerError.      *)
(***************************************************************************)
Classified(w) ==
    /\ req[w].pc \in {"get_order", "save_payment_details", "done"}
    /\ Authentic(w)

C5_ClassifierTotal ==
    \A w \in Workers :
        Classified(w) =>
            LET code == req[w].POST.vads_result
            IN  /\ req[w].returned <=> code = SUCCESS_CODE
                /\ ~req[w].returned => req[w].exc # NoExc
                /\ req[w].returned => req[w].exc.cls \in {NoValue, "PaymentError"}
                /\ code \notin DocumentedCodes
                      => /\ ~req[w].returned
                         /\ req[w].exc.cls = "SystemPayGatewayServerError"

C5_Witness ==
    \E w \in Workers :
        /\ Done(w)
        /\ Authentic(w)
        /\ req[w].POST.vads_result \notin DocumentedCodes
        /\ req[w].exc.cls = "SystemPayGatewayServerError"

(***************************************************************************)
(* C6.  An authentic callback that is not Complete fails with a typed      *)
(* gateway error, code 17 included, and post ends with an HTTP response.   *)
(***************************************************************************)
C6_TypedErrors ==
    \A w \in Workers :
        (Done(w) /\ Authentic(w) /\ req[w].POST.vads_result # SUCCESS_CODE)
            => /\ req[w].exc.cls \in GatewayErrors
               /\ req[w].response \in {"HttpResponse", "HttpResponseBadRequest"}

(***************************************************************************)
(* C7.  For an authentic callback: 02 and 05 raise PaymentRejected, 30     *)
(* raises ParamError carrying the callback's extra-result code, 96 raises  *)
(* ServerError; and the stored RETURN record's result is the callback's    *)
(* result code.                                                            *)
(***************************************************************************)
C7_DecisionTable ==
    \A w \in Workers :
        (Done(w) /\ Authentic(w)
                 /\ req[w].POST.vads_result \in {"02", "05", "30", "96"})
            => LET code == req[w].POST.vads_result
               IN  /\ code \in {"02", "05"}
                         => req[w].exc.cls = "SystemPayGatewayPaymentRejected"
                   /\ code = "30"
                         => /\ req[w].exc.cls = "SystemPayGatewayParamError"
                            /\ req[w].exc.code = req[w].POST.vads_extra_result
                   /\ code = "96"
                         => req[w].exc.cls = "SystemPayGatewayServerError"
                   /\ HasReturnRecord(w)
                   /\ txns[req[w].txn].result = code

C7_Witness ==
    \E w \in Workers :
        /\ Done(w)
        /\ Authentic(w)
        /\ req[w].POST.vads_result = "30"
        /\ req[w].exc.cls = "SystemPayGatewayParamError"
        /\ req[w].exc.code = "02"
        /\ txns[req[w].txn].result = "30"

(***************************************************************************)
(* C8, as claimed.  A valid callback whose signature does not verify fails *)
(* with an error of another kind than the one raised for an invalid form;  *)
(* its record carries an error message and no payment source is saved.     *)
(***************************************************************************)
BadSignature(w) ==
    /\ Done(w)
    /\ is_valid(req[w].POST)
    /\ ~is_signature_valid(req[w].POST)

C9_SourceOnlyOnSuccess ==
    [][ /\ sources' # sources
          => \E w \in Workers :
                /\ req[w].returned
                /\ Authentic(w)
                /\ is_complete(txns[req[w].txn])
                /\ txns[req[w].txn].operation_type
                      \in {OPERATION_TYPE_DEBIT, OPERATION_TYPE_CREDIT}
                /\ Len(sources') = Len(sources) + 1
                /\ SubSeq(sources', 1, Len(sources)) = sources
                /\ sources'[Len(sources')].txn = req[w].txn
                /\ req'[w].pc = "done"
                /\ req'[w].exc = NoExc
        /\ \A w \in Workers :
              ( /\ ~Done(w)
                /\ req'[w].pc = "done"
                /\ \/ req'[w].exc # NoExc
                   \/ req'[w].order = NoValue
                   \/ req'[w].POST.vads_operation_type
                         \notin {OPERATION_TYPE_DEBIT, OPERATION_TYPE_CREDIT} )
              => sources' = sources
      ]_vars

C9_Witness ==
    \E w \in Workers :
        /\ Done(w)
        /\ req[w].returned
        /\ req[w].exc.cls = "PaymentError"
        /\ SourcesOf(w) = {}

(***************************************************************************)
(* C10.  A Complete, authentic notification naming an order that does not  *)
(* exist: post answers with the normal response, no payment source is      *)
(* saved, and the RETURN record of the callback stays in the store.        *)
(***************************************************************************)
UnknownOrder(w) ==
    /\ Done(w)
    /\ Authentic(w)
    /\ req[w].POST.vads_result = SUCCESS_CODE
    /\ req[w].POST.vads_order_id \notin orders

C10_UnknownOrderAcknowledged ==
    \A w \in Workers :
        UnknownOrder(w)
            => /\ req[w].response = "HttpResponse"
               /\ req[w].exc = NoExc
               /\ SourcesOf(w) = {}
               /\ HasReturnRecord(w)
               /\ txns[req[w].txn].order_number = req[w].POST.vads_order_id

C10_Witness ==
    \E w \in Workers :
        /\ UnknownOrder(w)
        /\ req[w].returned
        /\ req[w].response = "HttpResponse"
        /\ Len(txns) = 2

(***************************************************************************)
(* Vocabulary of the customer's pages.                                     *)
(***************************************************************************)
\* the SUBMIT rows of order number o
SubmitRows(o) ==
    { i \in DOMAIN txns : txns[i].mode = MODE_SUBMIT /\ txns[i].order_number = o }

\* the RETURN rows of order number o
ReturnRows(o) ==
    { i \in DOMAIN txns : txns[i].mode = MODE_RETURN /\ txns[i].order_number = o }

\* get_form has handed the signed form of web.order to SecureRedirectView.get
FormProduced ==
    /\ web.view = "SecureRedirectView"
    /\ web.pc \in {"save_submit_txn", "render", "done"}
    /\ web.response \notin {"Http404", "Unhandled"}

\* SecureRedirectView.get has rendered the page that carries the form
FormRendered ==
    /\ web.view = "SecureRedirectView"
    /\ web.response = "TemplateResponse"

(***************************************************************************)
(* C11.  As stated: whenever the signed submit form of an order has been   *)
(* produced by get_submit_form_populated_with_order and handed to          *)
(* SecureRedirectView, a SUBMIT record of that order is in the store.      *)
(***************************************************************************)
C11_SubmitBeforeForm ==
    FormProduced => SubmitRows(web.order) # {}

(***************************************************************************)
(* C11, amended.  get_submit_form_populated_with_order writes nothing; it  *)
(* is SecureRedirectView.get that saves the SUBMIT record, after the form  *)
(* is built and before the page is rendered: whenever the page carrying    *)
(* the signed form is being rendered or has been answered, the store holds *)
(* a SUBMIT record of that order with the order's total, and the form is   *)
(* signed for that order.                                                  *)
(***************************************************************************)
C11_SubmitBeforeRender ==
    (FormProduced /\ (web.pc = "render" \/ FormRendered)) =>
        /\ is_signature_valid(web.form)
        /\ get_order_number(web.form) = web.order
        /\ \E i \in SubmitRows(web.order) :
               /\ txns[i].amount = total_incl_tax(web.order)
               /\ txns[i].error_message = NoValue

C11_Witness ==
    /\ FormRendered
    /\ is_signature_valid(web.form)
    /\ SubmitRows(web.order) # {}

(***************************************************************************)
(* C12.  The transaction store is append-only.  In every step of the shop  *)
(* (secure-redirect loads, notifications, browser returns, cancels) no row *)
(* is removed and no field of an existing row changes but error_message;   *)
(* error_message changes only from unset to set, only on a RETURN row, and *)
(* only in the step in which the callback that created the row fails form  *)
(* validation or signature verification.                                   *)
(***************************************************************************)
\* row i is the same in the next state, error_message aside
SameButErrorMessage(i) ==
    [txns'[i] EXCEPT !.error_message = NoValue]
        = [txns[i] EXCEPT !.error_message = NoValue]

\* in this step, the callback that created row i fails validation or verification
FailsChecks(i) ==
    \E w \in Workers :
        /\ req[w].txn = i
        /\ req[w].pc \in {"is_valid", "is_signature_valid"}
        /\ ~Authentic(w)
        /\ req'[w].pc = "done"
        /\ req'[w].exc \in {FormNotValid, IncorrectSignature}

C12_AppendOnly ==
    [][ /\ Len(txns') >= Len(txns)
        /\ \A i \in DOMAIN txns :
              /\ SameButErrorMessage(i)
              /\ txns'[i].error_message # txns[i].error_message =>
                    /\ txns[i].error_message = NoValue
                    /\ txns[i].mode = MODE_RETURN
                    /\ FailsChecks(i) ]_vars

C12_Witness ==
    /\ "ORD1" \notin orders
    /\ web.view = "CancelResponseView"
    /\ \E i, j \in DOMAIN txns :
          /\ txns[i].mode = MODE_SUBMIT
          /\ txns[i].order_number = "ORD1"
          /\ txns[j].mode = MODE_RETURN
          /\ txns[j].order_number = "ORD1"
          /\ txns[j].error_message # NoValue

(***************************************************************************)
(* C13.  When a callback has failed form validation, the error message is  *)
(* on its record in the store at the moment the error is surfaced; when a  *)
(* callback that passes validation and verification fails on its result    *)
(* code, the error message of its record is unset.                         *)
(***************************************************************************)
\* the request of worker w has ended on its result code
ResultCodeFailure(w) ==
    /\ Done(w)
    /\ Authentic(w)
    /\ ~req[w].returned

C13_ErrorMessageSaved ==
    \A w \in Workers :
        /\ (Done(w) /\ req[w].exc = FormNotValid) =>
              /\ HasReturnRecord(w)
              /\ txns[req[w].txn].error_message \notin {NoValue, "Signature not valid"}
        /\ ResultCodeFailure(w) =>
              /\ req[w].exc # NoExc
              /\ HasReturnRecord(w)
              /\ txns[req[w].txn].error_message = NoValue

C13_Witness ==
    \E w \in Workers :
        /\ Done(w)
        /\ req[w].exc = FormNotValid
        /\ ~is_valid(req[w].POST)
        /\ txns[req[w].txn].error_message # NoValue

(***************************************************************************)
(* C14.  In the step in which ReturnResponseView answers for an order, the *)
(* message is the pending one exactly when the store holds no RETURN row   *)
(* of that order; otherwise it is the success message when the most        *)
(* recently created RETURN row of the order is complete and the rejection  *)
(* message when it is not, whatever the SUBMIT rows and the older RETURN   *)
(* rows say; and the step leaves the transaction store as it was.          *)
(***************************************************************************)
\* this step is ReturnResponseView answering for an order
ReturnAnswered ==
    /\ web.pc = "idle"
    /\ web'.view = "ReturnResponseView"
    /\ web'.response = "checkout:thank-you"

C14_ReturnMessage ==
    [][ ReturnAnswered =>
          /\ txns' = txns
          /\ web'.message = PendingMessage <=> ReturnRows(web'.order) = {}
          /\ \A i \in ReturnRows(web'.order) :
                (\A j \in ReturnRows(web'.order) : j <= i) =>
                    /\ is_complete(txns[i]) => web'.message = SuccessMessage
                    /\ ~is_complete(txns[i]) => web'.message = RejectedMessage ]_vars

C14_Witness ==
    /\ web.view = "ReturnResponseView"
    /\ web.message = SuccessMessage
    /\ \E i, j \in ReturnRows(web.order) :
          /\ i < j
          /\ ~is_complete(txns[i])
          /\ is_complete(txns[j])

(***************************************************************************)
(* C15.  Each order has at most one SUBMIT record, after any sequence of   *)
(* secure-redirect loads, browser returns and notifications.               *)
(***************************************************************************)
C15_OneSubmitPerOrder ==
    \A o \in OrderNumbers : Cardinality(SubmitRows(o)) <= 1

(***************************************************************************)
(* C16.  ReturnResponseView gives the success message for an order only if *)
(* the latest RETURN record of that order belongs to a callback that       *)
(* passes form validation and signature verification: never when that     *)
(* record is the one of a callback the checks have refused.                *)
(***************************************************************************)
\* neither validation nor verification has refused the callback of row i
NotRefused(i) == txns[i].error_message = NoValue

C16_SuccessOnlyIfVerified ==
    [][ (ReturnAnswered /\ web'.message = SuccessMessage) =>
          \A i \in ReturnRows(web'.order) :
              (\A j \in ReturnRows(web'.order) : j <= i) => NotRefused(i) ]_vars

(***************************************************************************)
(* C17.  Under every interleaving of a cancel and a notification for the   *)
(* same order: no step deletes an order to which a payment source has been *)
(* applied, and no step leaves a payment source saved against an order     *)
(* that is no longer there.                                                *)
(***************************************************************************)
C17_CancelAndIpnCoordinated ==
    [][ /\ \A o \in orders \ orders' : SourcesOfOrder(o) = {}
        /\ \A i \in DOMAIN sources' : sources'[i].order \in orders' ]_vars

====
